---- MODULE Spec2Model ----
(***************************************************************************)
(* Lab-value extraction, unit normalisation, health index and dietary      *)
(* advice of app.py.                                                       *)
(*                                                                         *)
(* A text is a sequence of tokens; a token is a lowercase or capitalised   *)
(* word, a punctuation character or a single digit.  Numbers are exact     *)
(* decimals [m, e] standing for m / 10^e, kept in canonical form.          *)
(***************************************************************************)
EXTENDS Integers, Sequences, FiniteSets, TLC

VARIABLES text, image_texts, pc, lab_vals, dietary, lab_score, image_score, health_index,
          session, text_input, client, last

\* st.session_state, the text area, the OpenAI client and what the last run did
ui == <<session, text_input, client, last>>

vars == <<text, image_texts, pc, lab_vals, dietary, lab_score, image_score, health_index,
          session, text_input, client, last>>

(***************************************************************************)
(* Bounds of the input space.                                              *)
(***************************************************************************)
MaxFields == 2

MaxKeywords == 2

MaxImages == 11

\* AI answers stored in one session
MaxChat == 2

(***************************************************************************)
(* Exact decimal numbers.                                                  *)
(***************************************************************************)
RECURSIVE Pow10(_)
Pow10(k) == IF k = 0 THEN 1 ELSE 10 * Pow10(k - 1)

RECURSIVE Canon(_, _)
Canon(m, e) == IF e > 0 /\ m % 10 = 0 THEN Canon(m \div 10, e - 1) ELSE [m |-> m, e |-> e]

None == [none |-> TRUE]

IntNum(n) == [m |-> n, e |-> 0]

Dec(m, e) == Canon(m, e)

NumLess(a, b) == a.m * Pow10(b.e) < b.m * Pow10(a.e)

NumMul(a, b) == Canon(a.m * b.m, a.e + b.e)

NumDivPow10(a, k) == Canon(a.m, a.e + k)

\* round(x, nd) and the formatting {x:.ndf}: both round the binary value of the
\* float correctly, so a decimal tie goes the way its binary value lies (up).
Round(x, nd, up) ==
    IF x.e <= nd THEN x
    ELSE LET p == Pow10(x.e - nd)
             q == x.m \div p
             r == x.m % p
             h == 5 * Pow10(x.e - nd - 1)
         IN  IF r > h \/ (r = h /\ up) THEN Canon(q + 1, nd) ELSE Canon(q, nd)

(***************************************************************************)
(* Tokens.                                                                 *)
(***************************************************************************)
Digit == {"0", "1", "2", "3", "4", "5", "6", "7", "8", "9"}

DigitVal(d) ==
    CASE d = "0" -> 0 [] d = "1" -> 1 [] d = "2" -> 2 [] d = "3" -> 3 [] d = "4" -> 4
      [] d = "5" -> 5 [] d = "6" -> 6 [] d = "7" -> 7 [] d = "8" -> 8 [] d = "9" -> 9

WS == {" ", "\n"}

ColonWS == {":"} \cup WS

NumTok == Digit \cup {"."}

\* str.lower() on one token
LowerTok(tok) ==
    CASE tok = "Hemoglobin" -> "hemoglobin"
      [] tok = "WBC" -> "wbc"
      [] tok = "Neutrophil" -> "neutrophil"
      [] tok = "g/dL" -> "g/dl"
      [] tok = "Stable" -> "stable"
      [] OTHER -> tok

Lower(t) == [i \in 1..Len(t) |-> LowerTok(t[i])]

(***************************************************************************)
(* Regular expressions of find_one: a prefix of items (one token, optional *)
(* token, starred class) followed by the captured group ([\d\.]+).         *)
(***************************************************************************)
Lit(s) == [set |-> {s}, q |-> "one"]

Opt(s) == [set |-> {s}, q |-> "opt"]

Star(S) == [set |-> S, q |-> "star"]

\* positions reachable from the positions P by matching one item
Step(t, P, item) ==
    LET one == {p + 1 : p \in {x \in P : x <= Len(t) /\ t[x] \in item.set}}
    IN  CASE item.q = "one" -> one
          [] item.q = "opt" -> P \cup one
          [] item.q = "star" ->
                {j \in 1..(Len(t) + 1) :
                    \E p \in P : p <= j /\ \A k \in p..(j - 1) : t[k] \in item.set}

RECURSIVE Ends(_, _, _, _)
Ends(t, P, items, k) ==
    IF k > Len(items) \/ P = {} THEN P ELSE Ends(t, Step(t, P, items[k]), items, k + 1)

\* the pattern matches at start position i: its prefix ends where a number token is
MatchesAt(t, items, i) ==
    \E j \in Ends(t, {i}, items, 1) : j <= Len(t) /\ t[j] \in NumTok

GroupStart(t, items, i) ==
    CHOOSE j \in Ends(t, {i}, items, 1) : j <= Len(t) /\ t[j] \in NumTok

\* greedy [\d\.]+ from position j
RECURSIVE RunEnd(_, _, _)
RunEnd(t, j, S) == IF j <= Len(t) /\ t[j] \in S THEN RunEnd(t, j + 1, S) ELSE j

\* re.search: group 1 of the leftmost match, <<>> when the pattern does not match
Search(t, items) ==
    LET starts == {i \in 1..Len(t) : MatchesAt(t, items, i)}
    IN  IF starts = {} THEN <<>>
        ELSE LET i == CHOOSE x \in starts : \A y \in starts : x <= y
                 j == GroupStart(t, items, i)
             IN  SubSeq(t, j, RunEnd(t, j, NumTok) - 1)

\* str.strip()
RECURSIVE Strip(_)
Strip(v) ==
    IF v = <<>> THEN v
    ELSE IF v[1] \in WS THEN Strip(Tail(v))
    ELSE IF v[Len(v)] \in WS THEN Strip(SubSeq(v, 1, Len(v) - 1))
    ELSE v

\* v.replace(",", "").strip()
StripCommas(v) == Strip(SelectSeq(v, LAMBDA c : c # ","))

RECURSIVE DigitsToInt(_)
DigitsToInt(ds) ==
    IF ds = <<>> THEN 0
    ELSE 10 * DigitsToInt(SubSeq(ds, 1, Len(ds) - 1)) + DigitVal(ds[Len(ds)])

\* float(re.search(r"[-+]?\d*\.?\d+", v).group(0)), None when v holds no digit
ParseFloat(v) ==
    LET digs == {i \in 1..Len(v) : v[i] \in Digit}
    IN  IF digs = {} THEN None
        ELSE LET k == CHOOSE x \in digs : \A y \in digs : x <= y
                 a == RunEnd(v, k, Digit)
             IN  IF k > 1 /\ v[k - 1] = "."
                 THEN Dec(DigitsToInt(SubSeq(v, k, a - 1)), a - k)
                 ELSE IF a + 1 <= Len(v) /\ v[a] = "." /\ v[a + 1] \in Digit
                      THEN LET b == RunEnd(v, a + 1, Digit)
                           IN  Dec(DigitsToInt(SubSeq(v, k, a - 1) \o SubSeq(v, a + 1, b - 1)),
                                   b - a - 1)
                      ELSE Dec(DigitsToInt(SubSeq(v, k, a - 1)), 0)

RECURSIVE FindFrom(_, _, _)
FindFrom(t, patterns, k) ==
    IF k > Len(patterns) THEN None
    ELSE LET num == ParseFloat(StripCommas(Search(t, patterns[k])))
         IN  IF num # None THEN num ELSE FindFrom(t, patterns, k + 1)

Reverse(q) == [i \in 1..Len(q) |-> q[Len(q) + 1 - i]]

\* the candidate patterns tried last to first
find_oneAs(t, patterns) == FindFrom(t, Reverse(patterns), 1)

find_one(t, patterns) == FindFrom(t, patterns, 1)

HbPatterns ==
    << <<Lit("hemoglobin"), Star(ColonWS)>>,
       <<Lit("hgb"), Star(ColonWS)>> >>

WbcPatterns ==
    << <<Lit("wbc"), Star(ColonWS)>>,
       <<Lit("white"), Lit(" "), Lit("blood"), Lit(" "), Lit("cell"), Opt("s"), Lit(":"),
         Star(ColonWS)>>,
       <<Lit("wbc"), Lit(" "), Lit("count"), Star(ColonWS)>> >>

NeutAbsPatterns ==
    << <<Lit("neutrophil"), Opt("s"), Star(WS), Opt("absolute"), Star(ColonWS)>>,
       <<Lit("neutrophil"), Lit(" "), Lit("count"), Star(ColonWS)>> >>

NeutPercentPatterns ==
    << <<Lit("neutrophil"), Opt("s"), Star(WS), Lit("%"), Star(WS), Star(ColonWS)>>,
       <<Lit("neutrophil"), Opt("s"), Star(WS), Lit("percent"), Star(ColonWS)>> >>

PltPatterns ==
    << <<Lit("platelet"), Opt("s"), Lit(":"), Star(ColonWS)>>,
       <<Lit("plt"), Star(ColonWS)>> >>

GluPatterns ==
    << <<Lit("glucose"), Star(ColonWS)>>,
       <<Lit("fasting"), Lit(" "), Lit("glucose"), Star(ColonWS)>> >>

(***************************************************************************)
(* parse_lab_values.                                                       *)
(***************************************************************************)
UnitThreshold == 50

\* a slip of the divisor: / 100.0
NormalizeAs(raw) ==
    IF NumLess(IntNum(UnitThreshold), raw) THEN NumDivPow10(raw, 2) ELSE raw

\* the magnitude heuristic applied to WBC and to directly extracted neutrophils
Normalize(raw) ==
    IF NumLess(IntNum(UnitThreshold), raw) THEN NumDivPow10(raw, 3) ELSE raw

Note(branch, from, pct, to) == [branch |-> branch, from |-> from, pct |-> pct, to |-> to]

\* the note of the branch not taken
NormNoteAs(raw, up) ==
    IF NumLess(IntNum(UnitThreshold), raw)
    THEN Note("assumed", None, None, Round(Normalize(raw), 2, up))
    ELSE Note("converted", raw, None, Round(Normalize(raw), 2, up))

NormNote(raw, up) ==
    IF NumLess(IntNum(UnitThreshold), raw)
    THEN Note("converted", raw, None, Round(Normalize(raw), 2, up))
    ELSE Note("assumed", None, None, Round(Normalize(raw), 2, up))

\* the percentage taken as a fraction: raw_neut_percent * wbc_10e9
DeriveNeutAbsAs(raw_neut_percent, wbc_10e9) == NumMul(raw_neut_percent, wbc_10e9)

\* (raw_neut_percent / 100.0) * wbc_10e9
DeriveNeutAbs(raw_neut_percent, wbc_10e9) == NumMul(NumDivPow10(raw_neut_percent, 2), wbc_10e9)

EmptyDict == [k \in {} |-> None]

Get(d, k) == IF k \in DOMAIN d THEN d[k] ELSE None

\* upW, upN: the side of a decimal tie on which the binary value of wbc_10e9 and
\* of neut_abs lies
parse_lab_values(txt, upW, upN) ==
    IF txt = <<>> THEN EmptyDict
    ELSE
    LET t == Lower(txt)
        raw_hb == find_one(t, HbPatterns)
        raw_wbc == find_one(t, WbcPatterns)
        raw_neut_abs == find_one(t, NeutAbsPatterns)
        raw_neut_percent == find_one(t, NeutPercentPatterns)
        raw_plt == find_one(t, PltPatterns)
        raw_glu == find_one(t, GluPatterns)
        wbc_10e9 == IF raw_wbc # None THEN Normalize(raw_wbc) ELSE None
        wbc_note == IF raw_wbc # None THEN NormNote(raw_wbc, upW) ELSE None
        derive == raw_neut_abs = None /\ raw_neut_percent # None /\ wbc_10e9 # None
        neut_abs ==
            IF raw_neut_abs # None THEN Normalize(raw_neut_abs)
            ELSE IF derive THEN DeriveNeutAbs(raw_neut_percent, wbc_10e9)
            ELSE None
        neut_note ==
            IF raw_neut_abs # None THEN NormNote(raw_neut_abs, upN)
            ELSE IF derive
                 THEN Note("calculated", Round(wbc_10e9, 2, upW), raw_neut_percent,
                           Round(neut_abs, 2, upN))
            ELSE None
    IN  [hb_g_dl |-> raw_hb,
         wbc_raw |-> raw_wbc,
         wbc_10e9_per_L |-> IF wbc_10e9 # None THEN Round(wbc_10e9, 2, upW) ELSE None,
         wbc_note |-> wbc_note,
         neutrophil_abs_raw |-> raw_neut_abs,
         neutrophil_abs |-> IF neut_abs # None THEN Round(neut_abs, 2, upN) ELSE None,
         neut_note |-> neut_note,
         neut_percent_raw |-> raw_neut_percent,
         plt |-> raw_plt,
         glucose |-> raw_glu]

(***************************************************************************)
(* generate_dietary_advice_from_labs.                                      *)
(***************************************************************************)
Line(kind, note) == [kind |-> kind, note |-> note]

LowNeutrophilLimit == Dec(15, 1)

\* an inclusive limit: <= 1.5
NeutropeniaFlagAs(v) == v # None /\ ~NumLess(LowNeutrophilLimit, v)

\* the only classification the advice applies: absolute neutrophils < 1.5
NeutropeniaFlag(v) == v # None /\ NumLess(v, LowNeutrophilLimit)

LowNeutrophils(d) == NeutropeniaFlag(Get(d, "neutrophil_abs"))

\* the subscript without the .get() test before it
AdviceRaisesAs(d) == "neutrophil_abs" \notin DOMAIN d

\* lab_vals['neutrophil_abs'] is subscripted only behind the .get() test, so the
\* KeyError of a missing key needs a value that .get() found
AdviceRaises(d) == Get(d, "neutrophil_abs") # None /\ "neutrophil_abs" \notin DOMAIN d

MenuLines ==
    <<Line("menu_header", None), Line("breakfast", None), Line("lunch", None),
      Line("dinner", None), Line("snacks", None)>>

RationaleLines ==
    <<Line("rationale_header", None), Line("rationale_protein", None),
      Line("rationale_cooked", None)>>

SafetyLines ==
    <<Line("safety_header", None), Line("safety_avoid_raw", None),
      Line("safety_hygiene", None)>>

generate_dietary_advice_from_labs(d) ==
    <<Line("header", None)>>
    \o (IF Get(d, "wbc_note") # None THEN <<Line("wbc_note", Get(d, "wbc_note"))>> ELSE <<>>)
    \o (IF Get(d, "neut_note") # None THEN <<Line("neut_note", Get(d, "neut_note"))>> ELSE <<>>)
    \o (IF LowNeutrophils(d) THEN <<Line("low_neutrophils", None)>> ELSE <<>>)
    \o MenuLines \o RationaleLines \o SafetyLines

(***************************************************************************)
(* compute_health_index_smart / compute_health_index_with_imaging.         *)
(***************************************************************************)
\* the keyword kw (one word) is a substring of the token tok
Inside(kw, tok) ==
    \/ kw = tok
    \/ kw = "normal" /\ tok \in {"abnormal", "abnormality"}
    \/ kw = "abnormal" /\ tok = "abnormality"

\* p in t, for a keyword of one or several words
Contains(t, kw) ==
    \E i \in 1..Len(t) :
        /\ i + Len(kw) - 1 <= Len(t)
        /\ IF Len(kw) = 1 THEN Inside(kw[1], t[i])
           ELSE \A k \in 1..Len(kw) : t[i + k - 1] = kw[k]

positives == << <<"normal">>, <<"stable">>, <<"remission">>, <<"improved">> >>

negatives ==
    << <<"metastasis">>, <<"high">>, <<"low">>, <<"elevated">>, <<"decreased">>,
       <<"critical">>, <<"abnormal">>, <<"progression">> >>

ImagingNegatives ==
    << <<"metastasis">>, <<"lesion">>, <<"tumor", " ", "growth">>, <<"progression">> >>

ImagingPositives ==
    << <<"stable">>, <<"no", " ", "abnormality">>, <<"remission">>,
       <<"no", " ", "evidence", " ", "of", " ", "disease">> >>

Hits(t, kws) == Cardinality({i \in 1..Len(kws) : Contains(t, kws[i])})

Max(a, b) == IF a >= b THEN a ELSE b

Min(a, b) == IF a <= b THEN a ELSE b

\* the upper limit left out
ClampAs(x) == Max(0, x)

Clamp(x) == Max(0, Min(100, x))

BaseScore == 50

KeywordDelta == 5

compute_health_index_smart(report_text) ==
    LET t == Lower(report_text)
    IN  Clamp(BaseScore + KeywordDelta * Hits(t, positives) - KeywordDelta * Hits(t, negatives))

LabScore(report_texts) ==
    IF report_texts # <<>> THEN compute_health_index_smart(report_texts) ELSE BaseScore

ImagingPenalty == 10

ImagingCredit == 5

RECURSIVE Deductions(_)
Deductions(texts) ==
    IF texts = <<>> THEN 0
    ELSE LET t == Lower(Head(texts))
         IN  (IF Hits(t, ImagingNegatives) > 0 THEN ImagingPenalty ELSE 0)
             - (IF Hits(t, ImagingPositives) > 0 THEN ImagingCredit ELSE 0)
             + Deductions(Tail(texts))

ImageBase == 100

ImageScore(image_reports_texts) ==
    IF image_reports_texts # <<>>
    THEN Clamp(ImageBase - Deductions(image_reports_texts))
    ELSE ImageBase

\* round(lab_score * 0.7 + image_score * 0.3, 1)
Combined(lab, img) == Round(Dec(7 * lab + 3 * img, 1), 1, FALSE)

compute_health_index_with_imaging(report_texts, image_reports_texts) ==
    Combined(LabScore(report_texts), ImageScore(image_reports_texts))

(***************************************************************************)
(* Inputs: lab texts made of labelled fields, keyword texts, imaging       *)
(* report lists, and the two texts the specification names.                *)
(***************************************************************************)
Labels ==
    { <<"Hemoglobin", ":", " ">>, <<"hgb", ":", " ">>, <<"WBC", ":", " ">>,
      <<"neutrophil", "s", ":", " ">>, <<"neutrophil", " ", "%", ":", " ">> }

OtherLabels == { <<"plt", " ">>, <<"glucose", ":", " ">>, <<"sodium", ":", " ">> }

Numbers ==
    { <<"9">>, <<"7", "8", "4", "5">>, <<"7", ",", "8", "0", "0">>,
      <<"1", ".", "4", "9", "5">>, <<".">> }

Fields == {l \o n : l \in Labels, n \in Numbers} \cup {l \o <<"9">> : l \in OtherLabels}

Joiner == <<",", " ">>

RECURSIVE LabTexts(_)
LabTexts(n) ==
    IF n = 0 THEN {<<>>}
    ELSE LET S == LabTexts(n - 1)
         IN  S \cup {IF s = <<>> THEN f ELSE s \o Joiner \o f : s \in S, f \in Fields}

ScenarioModerate ==
    <<"Hemoglobin", ":", " ", "9", " ", "g/dL", ",", " ", "WBC", ":", " ", "2", ".", "1",
      ",", " ", "Neutrophil", " ", "4", "0", "%">>

ScenarioRescale == <<"WBC", " ", "7", "8", "0", "0">>

KeywordTokens ==
    <<"normal", "Stable", "remission", "improved", "metastasis", "high", "low", "elevated",
      "decreased", "critical", "abnormal", "progression">>

RECURSIVE Pick(_, _)
Pick(toks, S) ==
    IF S = {} THEN <<>>
    ELSE LET i == CHOOSE x \in S : \A y \in S : x <= y
         IN  <<toks[i]>> \o (IF S = {i} THEN <<>> ELSE <<" ">> \o Pick(toks, S \ {i}))

HealthTexts ==
    {Pick(KeywordTokens, S) :
        S \in {X \in SUBSET (1..Len(KeywordTokens)) : Cardinality(X) <= MaxKeywords}}

Rep(x, n) == [i \in 1..n |-> x]

ImageLists ==
    {Rep(<<"lesion">>, k) \o Rep(<<"no", " ", "abnormality">>, l) :
        k \in 0..MaxImages, l \in 0..1}

(***************************************************************************)
(* The session: st.session_state and the widgets of one browser session.   *)
(***************************************************************************)
defaults ==
    [ocr_lab_texts |-> <<>>,
     ocr_image_texts |-> <<>>,
     all_lab_text |-> <<>>,
     ai_raw |-> <<>>,
     summary |-> <<>>,
     questions |-> <<>>,
     dietary |-> <<>>,
     generated |-> FALSE,
     health_index |-> None,
     chat_history |-> <<>>]

\* what one run of the script did: the button pressed, the AI call and the mail
Did(op, ai_called, ai_raised, email_sent) ==
    [op |-> op, ai_called |-> ai_called, ai_raised |-> ai_raised, email_sent |-> email_sent,
     choice |-> ""]

\* the same, for a run of the Refine handler with the selected refine_choice
DidRefine(choice, ai_raised) ==
    [Did("refine", TRUE, ai_raised, FALSE) EXCEPT !.choice = choice]

(***************************************************************************)
(* The pipeline: parse the text, build the advice, score the texts.        *)
(***************************************************************************)
Init ==
    /\ session = defaults
    /\ text_input = <<>>
    /\ client = FALSE
    /\ last = Did("start", FALSE, FALSE, FALSE)
    /\ \/ text \in LabTexts(MaxFields) \cup {ScenarioModerate, ScenarioRescale}
          /\ image_texts = <<>>
       \/ text \in HealthTexts /\ image_texts \in ImageLists
    /\ pc = "input"
    /\ lab_vals = EmptyDict
    /\ dietary = <<>>
    /\ lab_score = 0
    /\ image_score = 0
    /\ health_index = None

ParseLabValues ==
    /\ pc = "input"
    /\ \E upW \in BOOLEAN, upN \in BOOLEAN : lab_vals' = parse_lab_values(text, upW, upN)
    /\ pc' = "parsed"
    /\ UNCHANGED <<text, image_texts, dietary, lab_score, image_score, health_index, ui>>

GenerateDietaryAdvice ==
    /\ pc = "parsed"
    /\ IF AdviceRaises(lab_vals)
       THEN pc' = "raised" /\ UNCHANGED dietary
       ELSE pc' = "advised" /\ dietary' = generate_dietary_advice_from_labs(lab_vals)
    /\ UNCHANGED <<text, image_texts, lab_vals, lab_score, image_score, health_index, ui>>

ComputeHealthIndex ==
    /\ pc = "advised"
    /\ lab_score' = LabScore(text)
    /\ image_score' = ImageScore(image_texts)
    /\ health_index' = compute_health_index_with_imaging(text, image_texts)
    /\ pc' = "done"
    /\ UNCHANGED <<text, image_texts, lab_vals, dietary, ui>>

Next == ParseLabValues \/ GenerateDietaryAdvice \/ ComputeHealthIndex

Spec == Init /\ [][Next]_vars

(***************************************************************************)
(* AI answers: a sequence of sections, each a header and its lines.        *)
(***************************************************************************)
Section(h, body) == [h |-> h, body |-> body]

Text(kind) == Line(kind, None)

NoFindings == <<Text("No findings.")>>

\* extract_section: the lines under the first section with that header
extract_section(ai_text, header) ==
    LET at == {i \in 1..Len(ai_text) : ai_text[i].h = header}
    IN  IF at = {} THEN NoFindings
        ELSE ai_text[CHOOSE i \in at : \A k \in at : i <= k].body

\* the lines of the whole answer: ai_text.strip()
RECURSIVE Whole(_)
Whole(ai_text) ==
    IF ai_text = <<>> THEN <<>>
    ELSE (IF Head(ai_text).h = "" THEN <<>> ELSE <<Text(Head(ai_text).h)>>)
         \o Head(ai_text).body \o Whole(Tail(ai_text))

\* a line that holds one of the diet keywords of clean_questions_text
DietLine(l) == l.kind \in {"q_diet", "menu_line", "Dietary Advice", "Nutrition"}

clean_questions_text(q_text) ==
    IF q_text = <<>> THEN q_text
    ELSE LET cleaned == SelectSeq(q_text, LAMBDA l : ~DietLine(l))
         IN  IF cleaned # <<>> THEN cleaned ELSE q_text

append_chatAs(s, role, ai_text) ==
    [s EXCEPT !.chat_history = <<[role |-> role, text |-> ai_text]>>]

append_chat(s, role, ai_text) ==
    [s EXCEPT !.chat_history = Append(@, [role |-> role, text |-> ai_text])]

\* an answer with every section, one with a Nutrition section only, one without headers
Responses ==
    { <<Section("Summary", <<Text("s_line")>>),
        Section("Questions", <<Text("q_clinical"), Text("q_diet")>>),
        Section("Dietary Advice", <<Text("menu_line")>>)>>,
      <<Section("Nutrition", <<Text("menu_line")>>)>>,
      <<Section("", <<Text("plain")>>)>> }

Both == "Both (Summary + Questions + Dietary Advice)"

RefineChoices == {"Dietary Advice", "Suggested Questions for the Doctor", Both}

(***************************************************************************)
(* The texts of the session.                                               *)
(***************************************************************************)
ScenarioLow ==
    <<"WBC", ":", " ", "9", ",", " ", "neutrophil", " ", "%", ":", " ", "9", " ",
      "critical">>

SessionTexts == {ScenarioRescale, ScenarioLow}

\* what OCR reads from an upload: the lab reports and the scans
OcrResults ==
    { [labs |-> <<>>, images |-> << <<"lesion">> >>],
      [labs |-> <<ScenarioLow>>, images |-> <<>>] }

\* "\n".join(texts)
RECURSIVE JoinLines(_)
JoinLines(texts) ==
    IF texts = <<>> THEN <<>>
    ELSE IF Len(texts) = 1 THEN texts[1]
    ELSE texts[1] \o <<"\n">> \o JoinLines(Tail(texts))

\* lines 313-316 of every run: a non-blank text area replaces all_lab_text
ReadTextArea(s, widget) ==
    IF Strip(widget) # <<>> THEN [s EXCEPT !.all_lab_text = Strip(widget)] ELSE s

(***************************************************************************)
(* One action per run of the script: the widget that triggered it.         *)
(***************************************************************************)
SessionInit ==
    /\ session = defaults
    /\ text_input = <<>>
    /\ client \in BOOLEAN
    /\ last = Did("start", FALSE, FALSE, FALSE)
    /\ text = <<>>
    /\ image_texts = <<>>
    /\ pc = "idle"
    /\ lab_vals = EmptyDict
    /\ dietary = <<>>
    /\ lab_score = 0
    /\ image_score = 0
    /\ health_index = None

Pipeline == <<text, image_texts, pc, lab_vals, dietary, lab_score, image_score, health_index>>

\* the API key field is filled or cleared
SetApiKey ==
    /\ client' = ~client
    /\ session' = ReadTextArea(session, text_input)
    /\ last' = Did("input", FALSE, FALSE, FALSE)
    /\ UNCHANGED <<text_input, Pipeline>>

\* the text area is edited
EditText ==
    /\ \E t \in SessionTexts \cup {<<>>, <<" ">>} :
          /\ text_input' = t
          /\ session' = ReadTextArea(session, t)
    /\ last' = Did("input", FALSE, FALSE, FALSE)
    /\ UNCHANGED <<client, Pipeline>>

\* line 313: the text area keeps what was typed unless its seed value changes
Seeded(old_labs, new_labs, typed) ==
    IF JoinLines(new_labs) = JoinLines(old_labs) THEN typed ELSE JoinLines(new_labs)

\* a new set of files is uploaded and read by OCR; the text area is seeded again
Upload ==
    /\ \E ocr \in OcrResults :
          /\ text_input' = Seeded(session.ocr_lab_texts, ocr.labs, text_input)
          /\ session' = ReadTextArea([session EXCEPT !.ocr_lab_texts = ocr.labs,
                                                     !.ocr_image_texts = ocr.images],
                                     Seeded(session.ocr_lab_texts, ocr.labs, text_input))
    /\ last' = Did("input", FALSE, FALSE, FALSE)
    /\ UNCHANGED <<client, Pipeline>>

\* lines 358-386: the answer is stored and split, the advice is built
GenerateStore(s, ai_text, vals) ==
    LET s1 == append_chat([s EXCEPT !.ai_raw = ai_text], "assistant", ai_text)
        s2 == [s1 EXCEPT !.summary = extract_section(ai_text, "Summary"),
                         !.questions = clean_questions_text(extract_section(ai_text, "Questions"))]
        s3 == IF AdviceRaises(vals) THEN s2
              ELSE [s2 EXCEPT !.dietary = generate_dietary_advice_from_labs(vals)]
    IN  [s3 EXCEPT !.generated = TRUE]

ScoredAs(s) == s

\* lines 329-330: the health index of the current text, before the AI call
Scored(s) ==
    [s EXCEPT !.health_index =
         compute_health_index_with_imaging(s.all_lab_text, s.ocr_image_texts)]

\* button "Generate Summary & Dietary Advice"
Generate ==
    LET s == ReadTextArea(session, text_input)
        scored == Scored(s)
    IN  /\ IF s.all_lab_text = <<>> \/ ~client
           THEN session' = s /\ last' = Did("generate", FALSE, FALSE, FALSE)
           ELSE \/ session' = scored /\ last' = Did("generate", TRUE, TRUE, FALSE)
                \/ /\ Len(s.chat_history) < MaxChat
                   /\ LET lab_values == {parse_lab_values(s.all_lab_text, upW, upN) :
                                             upW \in BOOLEAN, upN \in BOOLEAN}
                      IN  \E vals \in lab_values, ai_text \in Responses :
                              session' = GenerateStore(scored, ai_text, vals)
                   /\ last' = Did("generate", TRUE, FALSE, FALSE)
        /\ UNCHANGED <<text_input, client, Pipeline>>

ReplacesQuestionsAs(choice) == TRUE

\* lines 455 and 489: the branches that write summary and questions
ReplacesQuestions(choice) == choice # "Dietary Advice"

\* lines 427 and 489: the branches that write dietary
ReplacesDietary(choice) == choice # "Suggested Questions for the Doctor"

\* lines 446-453, 475-487, 512-529: the answer is stored and the chosen part replaced
RefineStore(s, choice, ai_text) ==
    LET s1 == append_chat([s EXCEPT !.ai_raw = ai_text], "assistant", ai_text)
        found_s == extract_section(ai_text, "Summary")
        found_q == extract_section(ai_text, "Questions")
        none == found_s = NoFindings /\ found_q = NoFindings
        raw_summary == IF none THEN s.summary ELSE found_s
        raw_questions == IF none THEN Whole(ai_text) ELSE found_q
        found_d == extract_section(ai_text, "Dietary Advice")
        or_nutrition ==
            IF choice = Both /\ (found_d = <<>> \/ found_d = NoFindings)
            THEN extract_section(ai_text, "Nutrition") ELSE found_d
        dietary_section ==
            IF or_nutrition # <<>> /\ or_nutrition # NoFindings THEN or_nutrition
            ELSE Whole(ai_text)
        s2 == IF ReplacesQuestions(choice)
              THEN [s1 EXCEPT !.summary = raw_summary,
                              !.questions = clean_questions_text(raw_questions)]
              ELSE s1
        s3 == IF ReplacesDietary(choice) THEN [s2 EXCEPT !.dietary = dietary_section]
              ELSE s2
    IN  [s3 EXCEPT !.generated = TRUE]

\* button "Refine Selected"
Refine ==
    LET s == ReadTextArea(session, text_input)
    IN  /\ IF ~s.generated \/ s.all_lab_text = <<>>
           THEN session' = s /\ last' = Did("refine", FALSE, FALSE, FALSE)
           ELSE \E choice \in RefineChoices :
                  \/ session' = s /\ last' = DidRefine(choice, TRUE)
                  \/ /\ client
                     /\ Len(s.chat_history) < MaxChat
                     /\ \E ai_text \in Responses : session' = RefineStore(s, choice, ai_text)
                     /\ last' = DidRefine(choice, FALSE)
        /\ UNCHANGED <<text_input, client, Pipeline>>

EmailAllowedAs(s, recipient) == recipient

\* lines 555-558: a recipient is entered and a report was generated
EmailAllowed(s, recipient) == recipient /\ s.generated

\* button "Send Email"; the SMTP server accepts the message or raises
SendEmail ==
    LET s == ReadTextArea(session, text_input)
    IN  /\ session' = s
        /\ LET sent == {EmailAllowed(s, recipient) /\ accepted :
                            recipient \in BOOLEAN, accepted \in BOOLEAN}
           IN  \E email_sent \in sent : last' = Did("email", FALSE, FALSE, email_sent)
        /\ UNCHANGED <<text_input, client, Pipeline>>

SessionNext == SetApiKey \/ EditText \/ Upload \/ Generate \/ Refine \/ SendEmail

SessionSpec == SessionInit /\ [][SessionNext]_vars

(***************************************************************************)
(* Vocabulary of the properties.                                           *)
(***************************************************************************)
Parsed == pc \in {"parsed", "advised", "done"} /\ text # <<>>

Advised == pc \in {"advised", "done"}

Over(raw) == NumLess(IntNum(50), raw)

\* raw or raw / 1000, by magnitude
Scaled(raw) == IF Over(raw) THEN NumDivPow10(raw, 3) ELSE raw

Abs(x) == IF x < 0 THEN -x ELSE x

\* out has at most two decimals and lies within 0.005 of x
Near2(out, x) ==
    /\ out.e <= 2
    /\ LET E == Max(out.e, x.e)
           a == out.m * Pow10(E - out.e)
           b == x.m * Pow10(E - x.e)
       IN  IF E <= 2 THEN a = b ELSE Abs(a - b) <= 5 * Pow10(E - 3)

CountPairs == {<<"wbc_raw", "wbc_10e9_per_L">>, <<"neutrophil_abs_raw", "neutrophil_abs">>}

Kinds(lines) == [i \in 1..Len(lines) |-> lines[i].kind]

HasLine(kind) == \E i \in 1..Len(dietary) : dietary[i].kind = kind

CountLines(kind) == Cardinality({i \in 1..Len(dietary) : dietary[i].kind = kind})

MenuKinds == <<"menu_header", "breakfast", "lunch", "dinner", "snacks">>

CautionKinds ==
    <<"rationale_header", "rationale_protein", "rationale_cooked",
      "safety_header", "safety_avoid_raw", "safety_hygiene">>

GenericKinds == <<"header">> \o MenuKinds \o CautionKinds

EndsWithMenuAndCautions ==
    LET k == Kinds(dietary)
        n == Len(MenuKinds) + Len(CautionKinds)
    IN  Len(k) >= n /\ SubSeq(k, Len(k) - n + 1, Len(k)) = MenuKinds \o CautionKinds

(***************************************************************************)
(* C1: unit normalisation of WBC and of directly extracted neutrophils.    *)
(***************************************************************************)
\* C1 as stated: a raw count value <= 50 is returned unchanged and a raw value
\* > 50 is returned divided by exactly 1000.
C1_ReturnedExactly ==
    Parsed =>
        \A pr \in CountPairs :
            lab_vals[pr[1]] # None => lab_vals[pr[2]] = Scaled(lab_vals[pr[1]])

\* C1 amended: the returned value is the raw value (<= 50) or the raw value
\* divided by 1000 (> 50), rounded to two decimals; a returned value <= 50 is
\* left unchanged when it is normalised and rounded again.
C1_ReturnedRounded ==
    Parsed =>
        \A pr \in CountPairs :
            LET raw == lab_vals[pr[1]]
                out == lab_vals[pr[2]]
            IN  raw # None =>
                    /\ out # None
                    /\ Near2(out, Scaled(raw))
                    /\ ~Over(out) =>
                           \A up \in BOOLEAN : Round(Normalize(out), 2, up) = out

C1_Witness ==
    /\ pc = "parsed" /\ text # <<>>
    /\ lab_vals["wbc_raw"] # None /\ Over(lab_vals["wbc_raw"])
    /\ lab_vals["wbc_10e9_per_L"] # Scaled(lab_vals["wbc_raw"])
    /\ lab_vals["neutrophil_abs_raw"] # None /\ ~Over(lab_vals["neutrophil_abs_raw"])
    /\ lab_vals["neutrophil_abs"] = lab_vals["neutrophil_abs_raw"]

(***************************************************************************)
(* C2: the derived absolute neutrophil count.                              *)
(***************************************************************************)
ExactDerived == 
    NumMul(NumDivPow10(lab_vals["neut_percent_raw"], 2), Scaled(lab_vals["wbc_raw"]))

BothPresent == lab_vals["neut_percent_raw"] # None /\ lab_vals["wbc_raw"] # None

\* C2 as stated: the derived count equals percent/100 x normalized WBC when
\* both are present and is null when either is missing.
C2_DerivedExactly ==
    (Parsed /\ lab_vals["neutrophil_abs_raw"] = None) =>
        IF BothPresent THEN lab_vals["neutrophil_abs"] = ExactDerived
        ELSE lab_vals["neutrophil_abs"] = None

\* C2 amended: when no absolute count is extracted directly, the returned count
\* is percent/100 x (unrounded) normalized WBC rounded to two decimals when both
\* are present, and null when either is missing.
C2_DerivedRounded ==
    (Parsed /\ lab_vals["neutrophil_abs_raw"] = None) =>
        IF BothPresent
        THEN lab_vals["neutrophil_abs"] # None /\ Near2(lab_vals["neutrophil_abs"], ExactDerived)
        ELSE lab_vals["neutrophil_abs"] = None /\ lab_vals["neut_note"] = None

C2_Witness ==
    /\ pc = "parsed" /\ text # <<>>
    /\ lab_vals["neutrophil_abs_raw"] = None
    /\ BothPresent
    /\ lab_vals["neutrophil_abs"] # None
    /\ lab_vals["neutrophil_abs"] # ExactDerived
    /\ lab_vals["neut_note"] # None /\ lab_vals["neut_note"].branch = "calculated"

(***************************************************************************)
(* C3: the scenario "Hemoglobin: 9 g/dL, WBC: 2.1, Neutrophil 40%".        *)
(***************************************************************************)
\* C3: the scenario text yields hemoglobin 9 with an anemia flag, WBC 2.1
\* unscaled, absolute neutrophils 0.84 derived from 40% and a neutropenia flag.
C3_ScenarioModerate ==
    (Advised /\ text = ScenarioModerate) =>
        /\ lab_vals["hb_g_dl"] = IntNum(9)
        /\ HasLine("anemia")
        /\ lab_vals["wbc_raw"] = Dec(21, 1)
        /\ lab_vals["wbc_10e9_per_L"] = Dec(21, 1)
        /\ lab_vals["neut_percent_raw"] = IntNum(40)
        /\ lab_vals["neutrophil_abs"] = Dec(84, 2)
        /\ HasLine("low_neutrophils")

(***************************************************************************)
(* C4: classification of the absolute neutrophil count.                    *)
(***************************************************************************)
Count == Get(lab_vals, "neutrophil_abs")

\* the grade the advice carries: 1 with the low-neutrophil guidance, else 0
AdviceRank == IF HasLine("low_neutrophils") THEN 1 ELSE 0

\* severe 3, moderate 2, mild 1, none 0
BandRank(v) ==
    IF NumLess(v, Dec(5, 1)) THEN 3
    ELSE IF NumLess(v, IntNum(1)) THEN 2
    ELSE IF NumLess(v, Dec(15, 1)) THEN 1
    ELSE 0

FlagRank(v) == IF NeutropeniaFlag(v) THEN 1 ELSE 0

SampleCounts == {Dec(k, 2) : k \in {0, 49, 50, 84, 99, 100, 149, 150, 151, 200, 784}}

Below(k, limit) == Get(lab_vals, k) # None /\ NumLess(lab_vals[k], limit)

Above(k, limit) == Get(lab_vals, k) # None /\ NumLess(limit, lab_vals[k])

Neutropenia == Below("neutrophil_abs", Dec(15, 1))

Anemia == Below("hb_g_dl", IntNum(12))

Thrombocytopenia == Below("plt", IntNum(100))

Hyperglycemia == Above("glucose", IntNum(7))

Block(active, kind) == CountLines(kind) = IF active THEN 1 ELSE 0

\* C5: the advice holds exactly one block for each active flag (neutropenia,
\* anemia, thrombocytopenia, hyperglycemia), then the menu and the cautions.
C5_OneBlockPerFlag ==
    Advised =>
        /\ Block(Neutropenia, "low_neutrophils")
        /\ Block(Anemia, "anemia")
        /\ Block(Thrombocytopenia, "thrombocytopenia")
        /\ Block(Hyperglycemia, "hyperglycemia")
        /\ EndsWithMenuAndCautions

(***************************************************************************)
(* C6: the health index.                                                   *)
(***************************************************************************)
\* C6: the index lies in [0,100], both sub-scores lie in [0,100], the index is
\* 0.7 x lab score + 0.3 x imaging score, and it is 65 for an empty lab text
\* without imaging text.
C6_HealthIndexRange ==
    pc = "done" =>
        /\ lab_score \in 0..100
        /\ image_score \in 0..100
        /\ health_index # None
        /\ ~NumLess(health_index, IntNum(0))
        /\ ~NumLess(IntNum(100), health_index)
        /\ health_index = Dec(7 * lab_score + 3 * image_score, 1)
        /\ (text = <<>> /\ image_texts = <<>>) => health_index = IntNum(65)

C6_Witness ==
    /\ pc = "done" /\ text = <<>> /\ image_texts = <<>>
    /\ lab_score = 50 /\ image_score = 100 /\ health_index = IntNum(65)

(***************************************************************************)
(* C7: every text gets an advice with the menu and the cautions.           *)
(***************************************************************************)
NoFlag == ~Neutropenia /\ ~Anemia /\ ~Thrombocytopenia /\ ~Hyperglycemia

IsNote(l) == l.kind \in {"wbc_note", "neut_note"}

\* C7 as stated: no text makes the advice raise, the advice always holds the
\* menu and the cautions, and with no active flag it holds the generic content,
\* the menu and the cautions only.
C7_GenericOnly ==
    /\ pc # "raised"
    /\ Advised =>
          /\ EndsWithMenuAndCautions
          /\ NoFlag => Kinds(dietary) = GenericKinds

\* C7 amended: no text makes the advice raise, the advice always ends with the
\* menu and the cautions, and with no active flag it holds, besides the generic
\* content, the menu and the cautions, only the provenance notes of the
\* extracted WBC and neutrophil values.
C7_GenericAndNotes ==
    /\ pc # "raised"
    /\ Advised =>
          /\ EndsWithMenuAndCautions
          /\ NoFlag => Kinds(SelectSeq(dietary, LAMBDA l : ~IsNote(l))) = GenericKinds
          /\ \A i \in 1..Len(dietary) :
                IsNote(dietary[i]) =>
                    dietary[i].note # None /\ dietary[i].note = Get(lab_vals, dietary[i].kind)

C7_Witness ==
    /\ pc = "advised" /\ text = <<>>
    /\ lab_vals = EmptyDict
    /\ Kinds(dietary) = GenericKinds

(***************************************************************************)
(* C8: the candidate patterns of an analyte are tried in their order.      *)
(***************************************************************************)
RECURSIVE SkipTo(_, _)
SkipTo(t, j) == IF j <= Len(t) /\ t[j] \in ColonWS THEN SkipTo(t, j + 1) ELSE j

\* the label at position i is followed, after colons and blanks, by a number
Labelled(t, label, i) ==
    t[i] = label /\ SkipTo(t, i + 1) <= Len(t) /\ t[SkipTo(t, i + 1)] \in NumTok

FirstLabelled(t, label) ==
    LET at == {i \in 1..Len(t) : Labelled(t, label, i)}
    IN  IF at = {} THEN 0 ELSE CHOOSE i \in at : \A k \in at : i <= k

\* the number written after the first such label, None without one
ValueAfter(t, label) ==
    LET i == FirstLabelled(t, label)
    IN  IF i = 0 THEN None
        ELSE LET j == SkipTo(t, i + 1)
             IN  ParseFloat(SubSeq(t, j, RunEnd(t, j, NumTok) - 1))

AnalyteWords ==
    [hb_g_dl |-> {"hemoglobin", "hgb"},
     wbc_raw |-> {"wbc", "cell"},
     neutrophil_abs_raw |-> {"neutrophil"},
     neut_percent_raw |-> {"neutrophil"},
     plt |-> {"platelet", "plt"},
     glucose |-> {"glucose"}]

Mentions(t, words) == \E i \in 1..Len(t) : t[i] \in words

IsSeparator(t, i) ==
    t[i] = "," /\ i > 1 /\ i < Len(t) /\ t[i - 1] \in Digit /\ t[i + 1] \in Digit

\* the text with the commas between digits taken out
RECURSIVE Unseparated(_, _)
Unseparated(t, i) ==
    IF i > Len(t) THEN <<>>
    ELSE (IF IsSeparator(t, i) THEN <<>> ELSE <<t[i]>>) \o Unseparated(t, i + 1)

AnalytePatterns ==
    [hb_g_dl |-> HbPatterns,
     wbc_raw |-> WbcPatterns,
     neutrophil_abs_raw |-> NeutAbsPatterns,
     neut_percent_raw |-> NeutPercentPatterns,
     plt |-> PltPatterns,
     glucose |-> GluPatterns]

\* C9: a number written with comma thousands separators is extracted as the
\* same value as the number written without them.
C9_ThousandsSeparators ==
    Parsed =>
        \A k \in DOMAIN AnalytePatterns :
            lab_vals[k] = find_one(Lower(Unseparated(text, 1)), AnalytePatterns[k])

(***************************************************************************)
(* C10: the scenario "WBC 7800" and the provenance note of WBC.            *)
(***************************************************************************)
RescaleNote == Note("converted", IntNum(7800), None, Dec(78, 1))

\* C10: "WBC 7800" is rescaled to 7.8 with a note of the conversion and without
\* low-neutrophil guidance; whenever a WBC value is extracted, a note of the
\* branch taken and of the resulting value is attached and shown in the advice.
C10_Provenance ==
    /\ (Advised /\ text = ScenarioRescale) =>
          /\ lab_vals["wbc_raw"] = IntNum(7800)
          /\ lab_vals["wbc_10e9_per_L"] = Dec(78, 1)
          /\ lab_vals["wbc_note"] = RescaleNote
          /\ \E i \in 1..Len(dietary) : dietary[i] = Line("wbc_note", RescaleNote)
          /\ ~HasLine("low_neutrophils")
          /\ ~Neutropenia
    /\ (Advised /\ text # <<>>) =>
          IF lab_vals["wbc_raw"] = None
          THEN lab_vals["wbc_note"] = None /\ ~HasLine("wbc_note")
          ELSE /\ lab_vals["wbc_note"] # None
               /\ lab_vals["wbc_note"].branch =
                     IF Over(lab_vals["wbc_raw"]) THEN "converted" ELSE "assumed"
               /\ Over(lab_vals["wbc_raw"]) => lab_vals["wbc_note"].from = lab_vals["wbc_raw"]
               /\ lab_vals["wbc_note"].to = lab_vals["wbc_10e9_per_L"]
               /\ CountLines("wbc_note") = 1
               /\ \E i \in 1..Len(dietary) : dietary[i] = Line("wbc_note", lab_vals["wbc_note"])

C10_Witness ==
    /\ pc = "advised" /\ text = ScenarioRescale
    /\ lab_vals["wbc_10e9_per_L"] = Dec(78, 1)
    /\ lab_vals["wbc_note"] = RescaleNote
    /\ HasLine("wbc_note")

(***************************************************************************)
(* The session flag and what it guards.                                    *)
(***************************************************************************)
AiReturned(d) == d.ai_called /\ ~d.ai_raised

\* C11: 'generated' starts false; a run turns it true only if it is a Generate
\* run with non-empty all_lab_text, a configured client and an AI call that
\* returned; no run turns it false; a refinement AI call and an email send
\* happen only in runs that start with 'generated' true.
C11_GeneratedFlag ==
    /\ ~session.generated
    /\ [][ /\ (~session.generated /\ session'.generated)
                => /\ last'.op = "generate" /\ AiReturned(last')
                   /\ session'.all_lab_text # <<>>
                   /\ client
           /\ session.generated => session'.generated
           /\ (last'.op = "refine" /\ last'.ai_called) => session.generated
           /\ last'.email_sent => session.generated ]_vars

\* a report was generated and refined, and the mail went out
C11_Witness ==
    /\ session.generated
    /\ Len(session.chat_history) = 2
    /\ last.op = "email" /\ last.email_sent

(***************************************************************************)
(* An AI call that raises.                                                 *)
(***************************************************************************)
AiRaised(d) == d.ai_called /\ d.ai_raised

AdviceFor(txt) == generate_dietary_advice_from_labs(parse_lab_values(txt, FALSE, FALSE))

\* C12: a Generate or Refine run whose AI call raises leaves summary, questions,
\* dietary, ai_raw, chat_history and generated as they were; the Generate run
\* has by then stored the health index of the current lab text.
C12_FailedCall ==
    [][ AiRaised(last')
          => /\ session'.summary = session.summary
             /\ session'.questions = session.questions
             /\ session'.dietary = session.dietary
             /\ session'.ai_raw = session.ai_raw
             /\ session'.chat_history = session.chat_history
             /\ session'.generated = session.generated
             /\ last'.op = "generate"
                  => session'.health_index =
                       compute_health_index_with_imaging(session'.all_lab_text,
                                                         session'.ocr_image_texts) ]_vars

\* after a failed Generate the health index is the one of the new text while the
\* stored advice and summary are still those of the text generated before
C12_Witness ==
    /\ last.op = "generate" /\ AiRaised(last)
    /\ session.generated
    /\ session.all_lab_text = ScenarioLow
    /\ session.health_index =
         compute_health_index_with_imaging(ScenarioLow, session.ocr_image_texts)
    /\ session.health_index #
         compute_health_index_with_imaging(ScenarioRescale, session.ocr_image_texts)
    /\ session.dietary = AdviceFor(ScenarioRescale)
    /\ session.dietary # AdviceFor(ScenarioLow)
    /\ session.summary = <<Text("s_line")>>

(***************************************************************************)
(* What a refinement leaves alone.                                         *)
(***************************************************************************)
\* C13: a Refine run whose AI call returned leaves summary and questions as they
\* were with choice "Dietary Advice" and leaves dietary as it was with choice
\* "Suggested Questions for the Doctor"; no Refine run changes health_index or
\* all_lab_text.
C13_RefineFrame ==
    [][ last'.op = "refine"
          => /\ session'.health_index = session.health_index
             /\ session'.all_lab_text = session.all_lab_text
             /\ (AiReturned(last') /\ last'.choice = "Dietary Advice")
                  => /\ session'.summary = session.summary
                     /\ session'.questions = session.questions
             /\ (AiReturned(last') /\ last'.choice = "Suggested Questions for the Doctor")
                  => session'.dietary = session.dietary ]_vars

\* the advice of the lab values was replaced by the AI's and the summary kept
C13_Witness ==
    /\ last.op = "refine" /\ AiReturned(last) /\ last.choice = "Dietary Advice"
    /\ session.dietary = <<Text("menu_line")>>
    /\ session.summary = <<Text("s_line")>>
    /\ session.questions = <<Text("q_clinical")>>
    /\ Len(session.chat_history) = 2
    /\ session.health_index # None

(***************************************************************************)
(* The chat history and the last raw answer.                               *)
(***************************************************************************)
\* C14: chat_history only grows, by exactly one assistant entry in every run
\* whose AI call returned and by nothing in any other run; ai_raw is empty
\* while chat_history is empty and otherwise is the text of its last entry.
C14_ChatHistory ==
    /\ [](IF session.chat_history = <<>> THEN session.ai_raw = <<>>
          ELSE session.ai_raw = session.chat_history[Len(session.chat_history)].text)
    /\ [][ IF AiReturned(last')
           THEN /\ Len(session'.chat_history) = Len(session.chat_history) + 1
                /\ SubSeq(session'.chat_history, 1, Len(session.chat_history))
                     = session.chat_history
                /\ session'.chat_history[Len(session'.chat_history)].role = "assistant"
           ELSE session'.chat_history = session.chat_history ]_vars

\* two answers are stored in the order they came and ai_raw is the second
C14_Witness ==
    /\ Len(session.chat_history) = 2
    /\ session.chat_history[1].text # session.chat_history[2].text
    /\ session.ai_raw = session.chat_history[2].text
    /\ last.op = "refine" /\ AiReturned(last)

====
